---- MODULE Spec2Model ----
\* Scheduling and availability engine of the Glisten Detailing backend:
\* validateBooking, POST /api/availability, POST /api/date-availability and the
\* booking routes that write the bookings table.
EXTENDS Integers, Sequences, FiniteSets, TLC

VARIABLES
    bookings,   \* the bookings table, rows in insertion (rowid) order
    calendar,   \* the external calendar: "down" or the set of busy blocks
    travel,     \* the travel-time provider's answers, by (from, to)
    inflight,   \* create requests that passed validateBooking, not yet inserted
    last,       \* the request handled last and its response
    raced,      \* a create request was validated while another was in flight
    edited,     \* a row was edited or brought back to an occupying status
    handled     \* the number of PATCH and DELETE requests handled

vars == <<bookings, calendar, travel, inflight, last, raced, edited, handled>>

\* ------------------------------------------------------------------ bounds
MaxBookings == 2
MaxInflight == 2
MaxRows == 2
MaxAdminOps == 2
MaxItems == 2
MaxRoute == 3

\* ------------------------------------------------------- program constants
WORK_START == 8 * 60 + 30
WORK_END == 16 * 60 + 30
TRAVEL_LIMIT_MIN == 20
BUFFER_AFTER_JOB_MIN == 30
SLOT_STEP_MIN == 15

\* --------------------------------------------------- JavaScript arithmetic
\* NaN is the value JavaScript arithmetic gives for a missing or non-numeric
\* operand; every comparison with it is false.
NaN == 0 - 100000

JsAdd(a, b) == IF a = NaN \/ b = NaN THEN NaN ELSE a + b
JsMul(a, b) == IF a = NaN \/ b = NaN THEN NaN ELSE a * b
JsLt(a, b) == a # NaN /\ b # NaN /\ a < b
JsLe(a, b) == a # NaN /\ b # NaN /\ a <= b
JsGt(a, b) == a # NaN /\ b # NaN /\ a > b
JsGe(a, b) == a # NaN /\ b # NaN /\ a >= b
JsMax(a, b) == IF a = NaN \/ b = NaN THEN NaN ELSE IF a >= b THEN a ELSE b
JsMin(a, b) == IF a = NaN \/ b = NaN THEN NaN ELSE IF a <= b THEN a ELSE b

\* ------------------------------------------------------------ time strings
\* A time-of-day string is modelled by the numbers its ":"-separated parts
\* convert to: "09:00" is <<9, 0>>, "abc" is <<NaN>>, "9" is <<9>>, "" is <<>>.
T(h, m) == <<h, m>>

timeStringToMinutes(timeStr) ==
    IF Len(timeStr) < 2 THEN NaN
    ELSE JsAdd(JsMul(timeStr[1], 60), timeStr[2])

minutesToTimeString(mins) == <<mins \div 60, mins % 60>>

\* ORDER BY preferred_time compares the stored strings: zero-padded times
\* compare as their minutes, anything else sorts after the digits.
TimeKey(timeStr) ==
    IF timeStringToMinutes(timeStr) = NaN THEN 100000
    ELSE timeStringToMinutes(timeStr)

\* ---------------------------------------------------------------- dates
\* A date string is modelled by its day number, counted so that day 7 is a
\* Sunday; 0 is the empty or missing date.
NoDate == 0

\* isWorkingDay with Saturday counted as a working day.
isWorkingDayWithSaturday(dateStr) ==
    LET day == dateStr % 7
    IN day >= 1 /\ day <= 6

isWorkingDay(dateStr) ==
    LET day == dateStr % 7
    IN day >= 1 /\ day <= 5

\* ------------------------------------------------------------ postcodes
normalizePostcode(postcode) ==
    CASE postcode = "" -> ""
      [] postcode = " ab1 " -> "AB1"
      [] postcode = "zz9" -> "ZZ9"
      [] OTHER -> postcode

\* String.prototype.trim, on the postcode strings of the model.
Trim(postcode) == IF postcode = " ab1 " THEN "ab1" ELSE postcode

\* The Distance Matrix service geocodes its origins and destinations without
\* regard to letter case.
ProviderPlace(postcode) ==
    CASE postcode = "ab1" -> "AB1"
      [] postcode = "zz9" -> "ZZ9"
      [] OTHER -> postcode

Places == {"AB1", "ZZ9"}

\* A provider answer is a duration in seconds, or Fail for an HTTP error, a bad
\* response, a bad element or a thrown exception.
Fail == 0 - 1

\* getTravelTimeMinutes with a failed query answered as no travel at all.
getTravelTimeMinutesFailOpen(tr, fromPostcode, toPostcode) ==
    IF fromPostcode = "" \/ toPostcode = "" THEN 0
    ELSE LET answer == tr[<<ProviderPlace(Trim(fromPostcode)),
                            ProviderPlace(Trim(toPostcode))>>]
         IN IF answer = Fail THEN 0
            ELSE (answer + 30) \div 60

getTravelTimeMinutes(tr, fromPostcode, toPostcode) ==
    IF fromPostcode = "" \/ toPostcode = "" THEN 999
    ELSE LET answer == tr[<<ProviderPlace(Trim(fromPostcode)),
                            ProviderPlace(Trim(toPostcode))>>]
         IN IF answer = Fail THEN 999
            ELSE (answer + 30) \div 60    \* Math.round(seconds / 60)

\* ------------------------------------------------------ service durations
ToLowerCase(s) ==
    CASE s = "BASIC_WASH" -> "basic_wash"
      [] s = "Full_Detailed" -> "full_detailed"
      [] s = "LARGE" -> "large"
      [] s = "Medium" -> "medium"
      [] OTHER -> s

\* A JSON value that is not a string is written with a leading #: "#7" is the
\* number 7. Such a value is truthy and has no toLowerCase method, so the call
\* on it throws a TypeError; TypeError stands for a duration never returned.
NotStrings == {"#7"}
TypeError == 0 - 200000

\* A missing serviceId or size is "" and a missing quantity is 0: each is
\* falsy and takes the default of its || expression.
getServiceDurationMinutes(service) ==
    IF service.serviceId \in NotStrings \/ service.size \in NotStrings THEN TypeError
    ELSE
    LET id == ToLowerCase(service.serviceId)
        size == ToLowerCase(service.size)
        quantity == IF service.quantity = 0 THEN 1 ELSE service.quantity
        singleDuration ==
            IF id = "basic_wash" THEN 60
            ELSE IF id = "exterior_detailed" THEN
                IF size = "small" THEN 60
                ELSE IF size = "medium" THEN 75
                ELSE IF size = "large" THEN 90
                ELSE 60
            ELSE IF id = "full_detailed" THEN
                IF size = "small" THEN 75
                ELSE IF size = "medium" THEN 95
                ELSE IF size = "large" THEN 120
                ELSE 75
            ELSE 60
    IN singleDuration * quantity

RECURSIVE SumDurations(_)
SumDurations(services) ==
    IF services = <<>> THEN 0
    ELSE IF getServiceDurationMinutes(Head(services)) = TypeError
            \/ SumDurations(Tail(services)) = TypeError
         THEN TypeError
         ELSE getServiceDurationMinutes(Head(services)) + SumDurations(Tail(services))

\* A services value that is not an array (an object, a string, a number, or
\* no value) is written as NotAList.
NotAList == <<[serviceId |-> "#object", size |-> "#object", quantity |-> 0]>>

estimateBookingDurationMinutes(services) ==
    IF services = NotAList \/ Len(services) = 0 THEN 60 ELSE SumDurations(services)

\* ------------------------------------------------------------ bookings table
\* Occupying with cancelled rows left in the schedule.
OccupyingWithCancelled(row) == row.status \in {"pending", "confirmed", "cancelled"}

Occupying(row) == row.status \in {"pending", "confirmed"}

\* Insertion of one row into a list ordered by preferred_time; rows with equal
\* times keep their rowid order.
RECURSIVE InsertByTime(_, _)
InsertByTime(sorted, row) ==
    IF sorted = <<>> THEN <<row>>
    ELSE IF TimeKey(row.time) < TimeKey(Head(sorted).time)
         THEN <<row>> \o sorted
         ELSE <<Head(sorted)>> \o InsertByTime(Tail(sorted), row)

RECURSIVE OrderByTime(_)
OrderByTime(rows) ==
    IF rows = <<>> THEN <<>>
    ELSE InsertByTime(OrderByTime(SubSeq(rows, 1, Len(rows) - 1)), rows[Len(rows)])

\* SELECT * FROM bookings WHERE preferred_date = ? AND status IN ('pending',
\* 'confirmed') ORDER BY preferred_time ASC
SelectForDate(table, date) ==
    OrderByTime(SelectSeq(table, LAMBDA row : row.date = date /\ Occupying(row)))

\* SELECT * FROM bookings WHERE preferred_date BETWEEN ? AND ? AND status IN
\* ('pending', 'confirmed')
SelectForRange(table, startDate, endDate) ==
    SelectSeq(table, LAMBDA row :
        row.date >= startDate /\ row.date <= endDate /\ Occupying(row))

\* ------------------------------------------------------------ calendar
\* calendar.up is FALSE when the events query throws; the callers catch the
\* error and go on with no busy interval.
\* getBusyIntervalsForDate with a failed events query answered as a busy day.
getBusyIntervalsForDateBusyOnError(cal, dateStr) ==
    IF cal.up
    THEN SelectSeq(cal.blocks, LAMBDA b : b.date = dateStr)
    ELSE <<[date |-> dateStr, start |-> 0, end |-> 24 * 60]>>

getBusyIntervalsForDate(cal, dateStr) ==
    IF cal.up
    THEN SelectSeq(cal.blocks, LAMBDA b : b.date = dateStr)
    ELSE <<>>

\* ------------------------------------------------------------ shared steps
\* AllFar with a travel time equal to the limit counted as far.
AllFarAtLimit(tr, postcode, rows) ==
    \A k \in 1..Len(rows) :
        ~ (getTravelTimeMinutes(tr, postcode, rows[k].postcode) < TRAVEL_LIMIT_MIN)

\* The allFar loop of the three handlers.
AllFar(tr, postcode, rows) ==
    \A k \in 1..Len(rows) :
        ~ (getTravelTimeMinutes(tr, postcode, rows[k].postcode) <= TRAVEL_LIMIT_MIN)

\* BookingInterval without the buffer after the job.
BookingIntervalNoBuffer(row) ==
    LET dur == estimateBookingDurationMinutes(row.services)
        start == timeStringToMinutes(row.time)
    IN [start |-> start, end |-> JsAdd(start, dur), postcode |-> row.postcode]

BookingInterval(row) ==
    LET dur == estimateBookingDurationMinutes(row.services) + BUFFER_AFTER_JOB_MIN
        start == timeStringToMinutes(row.time)
    IN [start |-> start, end |-> JsAdd(start, dur), postcode |-> row.postcode]

\* The interval loop stops at the first row whose stored services make the
\* duration estimate throw.
RowsThrow(rows) ==
    \E k \in 1..Len(rows) : estimateBookingDurationMinutes(rows[k].services) = TypeError

CalendarInterval(c) == [start |-> c.start, end |-> c.end, postcode |-> ""]

BuildIntervals(rows, calendarBusy) ==
    [k \in 1..Len(rows) |-> BookingInterval(rows[k])]
        \o [k \in 1..Len(calendarBusy) |-> CalendarInterval(calendarBusy[k])]

\* Overlaps on closed intervals: touching ends count as an overlap.
OverlapsClosed(intervals, start, end) ==
    \E k \in 1..Len(intervals) :
        JsLe(JsMax(start, intervals[k].start), JsMin(end, intervals[k].end))

Overlaps(intervals, start, end) ==
    \E k \in 1..Len(intervals) :
        JsLt(JsMax(start, intervals[k].start), JsMin(end, intervals[k].end))

\* intervals.filter((i) => i.postcode)
BookingIntervals(intervals) == SelectSeq(intervals, LAMBDA i : i.postcode # "")

\* .filter((i) => i.end <= start).sort((a, b) => b.end - a.end)[0]; the sort
\* is stable, so of several intervals with the latest end the first is taken.
\* The result is a sequence of at most one interval.
PrevOf(bookingIntervals, start) ==
    LET before == SelectSeq(bookingIntervals, LAMBDA i : JsLe(i.end, start))
        best == {k \in 1..Len(before) :
                    /\ \A j \in 1..Len(before) : before[j].end <= before[k].end
                    /\ \A j \in 1..(k - 1) : before[j].end < before[k].end}
    IN IF before = <<>> THEN <<>> ELSE <<before[CHOOSE k \in best : TRUE]>>

\* .filter((i) => i.start >= end).sort((a, b) => a.start - b.start)[0]
NextOf(bookingIntervals, end) ==
    LET after == SelectSeq(bookingIntervals, LAMBDA i : JsGe(i.start, end))
        best == {k \in 1..Len(after) :
                    /\ \A j \in 1..Len(after) : after[j].start >= after[k].start
                    /\ \A j \in 1..(k - 1) : after[j].start > after[k].start}
    IN IF after = <<>> THEN <<>> ELSE <<after[CHOOSE k \in best : TRUE]>>

\* PrevTooFar with a travel time equal to the limit refused.
PrevTooFarAtLimit(tr, intervals, postcode, start) ==
    LET prev == PrevOf(BookingIntervals(intervals), start)
    IN prev # <<>> /\ getTravelTimeMinutes(tr, prev[1].postcode, postcode) >= TRAVEL_LIMIT_MIN

PrevTooFar(tr, intervals, postcode, start) ==
    LET prev == PrevOf(BookingIntervals(intervals), start)
    IN prev # <<>> /\ getTravelTimeMinutes(tr, prev[1].postcode, postcode) > TRAVEL_LIMIT_MIN

\* NextTooFar with the travel time asked from the next job to the candidate.
NextTooFarBackwards(tr, intervals, postcode, end) ==
    LET next == NextOf(BookingIntervals(intervals), end)
    IN next # <<>> /\ getTravelTimeMinutes(tr, next[1].postcode, postcode) > TRAVEL_LIMIT_MIN

NextTooFar(tr, intervals, postcode, end) ==
    LET next == NextOf(BookingIntervals(intervals), end)
    IN next # <<>> /\ getTravelTimeMinutes(tr, postcode, next[1].postcode) > TRAVEL_LIMIT_MIN

\* ------------------------------------------------------------ validateBooking
\* validateBooking with the overlap test moved before the area test.
validateBookingOverlapFirst(table, cal, tr, req) ==
    IF req.date = NoDate \/ req.postcode = "" \/ req.preferred_time = <<>>
    THEN "MISSING_FIELDS"
    ELSE IF ~ isWorkingDay(req.date) THEN "OUTSIDE_WORKING_DAYS"
    ELSE
    LET requestedDuration ==
            estimateBookingDurationMinutes(req.services) + BUFFER_AFTER_JOB_MIN
        requestedStart == timeStringToMinutes(req.preferred_time)
        requestedEnd == JsAdd(requestedStart, requestedDuration)
    IN
    IF JsLt(requestedStart, WORK_START) \/ JsGt(requestedEnd, WORK_END)
    THEN "OUTSIDE_WORKING_HOURS"
    ELSE
    LET rows == SelectForDate(table, req.date)
        intervals == BuildIntervals(rows, getBusyIntervalsForDate(cal, req.date))
    IN
    IF Overlaps(intervals, requestedStart, requestedEnd) THEN "TIME_TAKEN"
    ELSE IF Len(rows) > 0 /\ AllFar(tr, req.postcode, rows) THEN "OUT_OF_AREA_FOR_DAY"
    ELSE IF PrevTooFar(tr, intervals, req.postcode, requestedStart) THEN "TRAVEL_TOO_FAR"
    ELSE IF NextTooFar(tr, intervals, req.postcode, requestedEnd) THEN "TRAVEL_TOO_FAR"
    ELSE "ok"

\* The result is "ok" when the function returns, else the error it throws:
\* one of the six typed errors, or the TypeError of the duration estimate.
validateBooking(table, cal, tr, req) ==
    IF req.date = NoDate \/ req.postcode = "" \/ req.preferred_time = <<>>
    THEN "MISSING_FIELDS"
    ELSE IF ~ isWorkingDay(req.date) THEN "OUTSIDE_WORKING_DAYS"
    ELSE
    LET baseDuration == estimateBookingDurationMinutes(req.services)
        requestedDuration == baseDuration + BUFFER_AFTER_JOB_MIN
        requestedStart == timeStringToMinutes(req.preferred_time)
        requestedEnd == JsAdd(requestedStart, requestedDuration)
    IN
    IF baseDuration = TypeError THEN "TypeError"
    ELSE IF JsLt(requestedStart, WORK_START) \/ JsGt(requestedEnd, WORK_END)
    THEN "OUTSIDE_WORKING_HOURS"
    ELSE
    LET rows == SelectForDate(table, req.date)
        calendarBusy == getBusyIntervalsForDate(cal, req.date)
        intervals == BuildIntervals(rows, calendarBusy)
    IN
    IF Len(rows) > 0 /\ AllFar(tr, req.postcode, rows) THEN "OUT_OF_AREA_FOR_DAY"
    ELSE IF RowsThrow(rows) THEN "TypeError"
    ELSE IF Overlaps(intervals, requestedStart, requestedEnd) THEN "TIME_TAKEN"
    ELSE IF PrevTooFar(tr, intervals, req.postcode, requestedStart) THEN "TRAVEL_TOO_FAR"
    ELSE IF NextTooFar(tr, intervals, req.postcode, requestedEnd) THEN "TRAVEL_TOO_FAR"
    ELSE "ok"

\* ------------------------------------------------------------ POST /api/availability
\* CandidateStarts with the loop test candidateStart + requestedDuration < WORK_END.
CandidateStartsBeforeEnd(requestedDuration) ==
    LET span == WORK_END - requestedDuration - WORK_START - 1
        count == IF span < 0 THEN 0 ELSE (span \div SLOT_STEP_MIN) + 1
    IN [k \in 1..count |-> WORK_START + (k - 1) * SLOT_STEP_MIN]

\* The candidate starts of the for loop, in the order the loop visits them.
CandidateStarts(requestedDuration) ==
    LET span == WORK_END - requestedDuration - WORK_START
        count == IF span < 0 THEN 0 ELSE (span \div SLOT_STEP_MIN) + 1
    IN [k \in 1..count |-> WORK_START + (k - 1) * SLOT_STEP_MIN]

\* SlotFeasible without the check against the next job.
SlotFeasibleNoNext(tr, intervals, postcode, candidateStart, requestedDuration) ==
    LET candidateEnd == candidateStart + requestedDuration
    IN /\ ~ Overlaps(intervals, candidateStart, candidateEnd)
       /\ ~ PrevTooFar(tr, intervals, postcode, candidateStart)

\* The body of the for loop: TRUE when the candidate start is pushed.
SlotFeasible(tr, intervals, postcode, candidateStart, requestedDuration) ==
    LET candidateEnd == candidateStart + requestedDuration
    IN /\ ~ Overlaps(intervals, candidateStart, candidateEnd)
       /\ ~ PrevTooFar(tr, intervals, postcode, candidateStart)
       /\ ~ NextTooFar(tr, intervals, postcode, candidateEnd)

\* availability without the allFar test on the rows of the date.
availabilityWithoutAreaGate(table, cal, tr, req) ==
    IF req.date = NoDate \/ req.postcode = "" THEN [code |-> 400, slots |-> <<>>]
    ELSE IF ~ isWorkingDay(req.date) THEN [code |-> 200, slots |-> <<>>]
    ELSE IF estimateBookingDurationMinutes(req.services) = TypeError
    THEN [code |-> 500, slots |-> <<>>]
    ELSE
    LET requestedDuration ==
            estimateBookingDurationMinutes(req.services) + BUFFER_AFTER_JOB_MIN
        rows == SelectForDate(table, req.date)
    IN
    IF RowsThrow(rows) THEN [code |-> 500, slots |-> <<>>]
    ELSE
    LET calendarBusy == getBusyIntervalsForDate(cal, req.date)
        intervals == BuildIntervals(rows, calendarBusy)
        keep(candidateStart) ==
            SlotFeasible(tr, intervals, req.postcode, candidateStart, requestedDuration)
        starts == SelectSeq(CandidateStarts(requestedDuration), keep)
    IN [code |-> 200,
        slots |-> [k \in 1..Len(starts) |-> minutesToTimeString(starts[k])]]

\* The response: status 400 without date or postcode, 500 when the handler
\* catches an error, else 200 with the slots.
availability(table, cal, tr, req) ==
    IF req.date = NoDate \/ req.postcode = "" THEN [code |-> 400, slots |-> <<>>]
    ELSE IF ~ isWorkingDay(req.date) THEN [code |-> 200, slots |-> <<>>]
    ELSE IF estimateBookingDurationMinutes(req.services) = TypeError
    THEN [code |-> 500, slots |-> <<>>]
    ELSE
    LET requestedDuration ==
            estimateBookingDurationMinutes(req.services) + BUFFER_AFTER_JOB_MIN
        rows == SelectForDate(table, req.date)
    IN
    IF Len(rows) > 0 /\ AllFar(tr, req.postcode, rows) THEN [code |-> 200, slots |-> <<>>]
    ELSE IF RowsThrow(rows) THEN [code |-> 500, slots |-> <<>>]
    ELSE
    LET calendarBusy == getBusyIntervalsForDate(cal, req.date)
        intervals == BuildIntervals(rows, calendarBusy)
        keep(candidateStart) ==
            SlotFeasible(tr, intervals, req.postcode, candidateStart, requestedDuration)
        starts == SelectSeq(CandidateStarts(requestedDuration), keep)
    IN [code |-> 200,
        slots |-> [k \in 1..Len(starts) |-> minutesToTimeString(starts[k])]]

\* availabilityReads with the rows of the date selected before the working-day
\* test.
availabilityReadsRowsFirst(table, cal, tr, req) ==
    IF req.date = NoDate \/ req.postcode = "" THEN {}
    ELSE {"dbAll"} \cup
         (IF isWorkingDay(req.date) /\ Len(SelectForDate(table, req.date)) > 0
          THEN {"getTravelTimeMinutes"} ELSE {})

\* What one run of the handler calls: dbAll on the bookings table,
\* getTravelTimeMinutes, getBusyIntervalsForDate.
availabilityReads(table, cal, tr, req) ==
    IF req.date = NoDate \/ req.postcode = "" THEN {}
    ELSE IF ~ isWorkingDay(req.date) THEN {}
    ELSE IF estimateBookingDurationMinutes(req.services) = TypeError THEN {}
    ELSE
    LET rows == SelectForDate(table, req.date)
    IN
    IF Len(rows) > 0 /\ AllFar(tr, req.postcode, rows)
    THEN {"dbAll", "getTravelTimeMinutes"}
    ELSE {"dbAll", "getBusyIntervalsForDate"}
         \cup (IF Len(rows) > 0 THEN {"getTravelTimeMinutes"} ELSE {})

\* ------------------------------------------------------------ POST /api/date-availability
\* d.toISOString().slice(0, 10) of a local midnight: the day before when the
\* process's time zone is ahead of UTC, the same day otherwise.
IsoDateOfLocalMidnight(d, tzAhead) == IF tzAhead THEN d - 1 ELSE d

dateAvailability(table, tr, req) ==
    IF req.postcode = "" \/ req.start_date = NoDate \/ req.end_date = NoDate
    THEN [code |-> 400, dates |-> <<>>]
    ELSE
    LET normPostcode == normalizePostcode(req.postcode)
        rows == SelectForRange(table, req.start_date, req.end_date)
        count == IF req.end_date < req.start_date THEN 0
                 ELSE req.end_date - req.start_date + 1
        entry(k) ==
            LET dStr == IsoDateOfLocalMidnight(req.start_date + k - 1, req.tzAhead)
                bookingsForDay == SelectSeq(rows, LAMBDA row : row.date = dStr)
                inArea ==
                    IF ~ isWorkingDay(dStr) THEN FALSE
                    ELSE IF Len(bookingsForDay) > 0
                         THEN ~ AllFar(tr, normPostcode, bookingsForDay)
                         ELSE TRUE
            IN [date |-> dStr, in_area |-> inArea]
    IN [code |-> 200, dates |-> [k \in 1..count |-> entry(k)]]

\* ------------------------------------------------------------ inputs
Friday == 5
Saturday == 6
Sunday == 7
Monday == 8

Malformed == <<NaN>>    \* a time string without digits, such as "abc"

NoServices == <<>>
FullLarge == <<[serviceId |-> "full_detailed", size |-> "large", quantity |-> 1]>>
NegativeWash == <<[serviceId |-> "basic_wash", size |-> "", quantity |-> 0 - 1]>>

FullLargeThrice == <<[serviceId |-> "full_detailed", size |-> "large", quantity |-> 3]>>

NumberedService == <<[serviceId |-> "#7", size |-> "", quantity |-> 1]>>

ServiceLists == {NoServices, FullLarge, NegativeWash}

Row(date, time, postcode, services, status) ==
    [date |-> date, time |-> time, postcode |-> postcode,
     services |-> services, status |-> status]

\* The provider's answers: between the two places 20 minutes, 21 minutes or a
\* failure in each direction, within one place 0, or a failure of every query.
TravelAnswers ==
    {tr \in [Places \X Places -> {0, 1200, 1230, Fail}] :
        /\ tr[<<"AB1", "AB1">>] = tr[<<"ZZ9", "ZZ9">>]
        /\ tr[<<"AB1", "ZZ9">>] # 0 /\ tr[<<"ZZ9", "AB1">>] # 0
        /\ \/ tr[<<"AB1", "AB1">>] = 0
           \/ \A pair \in Places \X Places : tr[pair] = Fail}

CalendarBlock == [date |-> Friday, start |-> 10 * 60, end |-> 11 * 60]

CalendarStates ==
    {[up |-> TRUE, blocks |-> <<>>],
     [up |-> TRUE, blocks |-> <<CalendarBlock>>],
     [up |-> FALSE, blocks |-> <<CalendarBlock>>]}

\* Rows the table can hold: created by POST /api/bookings, then confirmed,
\* declined, cancelled or edited by the PATCH routes.
RowPool ==
    << Row(Friday, T(9, 0), "AB1", NoServices, "pending"),
       Row(Friday, T(9, 0), "ZZ9", NoServices, "confirmed"),
       Row(Friday, T(12, 30), "ZZ9", FullLarge, "pending"),
       Row(Friday, T(10, 30), "ZZ9", NoServices, "cancelled"),
       Row(Friday, Malformed, "AB1", NoServices, "pending"),
       Row(Friday, T(13, 0), "AB1", NegativeWash, "confirmed"),
       Row(Monday, T(9, 0), "ZZ9", NoServices, "pending"),
       Row(Friday, T(14, 0), "", NoServices, "pending"),
       Row(Friday, T(9, 0), "ZZ9", FullLarge, "declined") >>

\* Tables of at most n different rows of the pool, in pool order.
RECURSIVE TablesFrom(_, _)
TablesFrom(first, n) ==
    IF n = 0 THEN {<<>>}
    ELSE {<<>>} \cup
         UNION {{<<RowPool[k]>> \o rest : rest \in TablesFrom(k + 1, n - 1)} :
                    k \in first..Len(RowPool)}

ValidateRequest(date, postcode, services, time) ==
    [date |-> date, postcode |-> postcode, services |-> services,
     preferred_time |-> time]

RequestTimes ==
    {T(8, 15), T(8, 30), T(10, 0), T(10, 30), T(11, 0), T(15, 0), Malformed}

ValidateRequests ==
    {ValidateRequest(Friday, pc, sv, t) :
        pc \in Places, sv \in ServiceLists, t \in RequestTimes}
    \cup {ValidateRequest(Saturday, pc, NoServices, t) :
            pc \in {"AB1", ""}, t \in {T(8, 15), <<>>, Malformed}}
    \cup {ValidateRequest(Friday, pc, FullLargeThrice, t) :
            pc \in Places, t \in {T(8, 30), T(10, 0)}}
    \cup {ValidateRequest(Sunday, "AB1", FullLarge, T(10, 30)),
          ValidateRequest(NoDate, "AB1", NoServices, T(10, 30)),
          ValidateRequest(Friday, "", NoServices, T(10, 30)),
          ValidateRequest(Friday, "AB1", NoServices, <<>>),
          ValidateRequest(Monday, "AB1", NoServices, T(9, 0))}

AvailabilityRequest(date, postcode, services) ==
    [date |-> date, postcode |-> postcode, services |-> services]

AvailabilityRequests ==
    {AvailabilityRequest(Friday, pc, sv) :
        pc \in Places, sv \in ServiceLists \cup {FullLargeThrice}}
    \cup {AvailabilityRequest(Saturday, "AB1", NoServices),
          AvailabilityRequest(Monday, "AB1", NoServices),
          AvailabilityRequest(NoDate, "AB1", NoServices),
          AvailabilityRequest(Friday, "", NoServices)}

RangeRequest(postcode, startDate, endDate, tzAhead) ==
    [postcode |-> postcode, start_date |-> startDate, end_date |-> endDate,
     tzAhead |-> tzAhead]

RangeRequests ==
    {RangeRequest(pc, Friday, Monday, tz) :
        pc \in {"AB1", "ZZ9", " ab1 "}, tz \in BOOLEAN}
    \cup {RangeRequest("AB1", Saturday, Monday, TRUE),
          RangeRequest("AB1", Monday, Friday, FALSE),
          RangeRequest("", Friday, Monday, FALSE)}

\* ------------------------------------------------------------ query actions
\* The three queries write nothing: a query leaves the table and the providers
\* as they were, so each behaviour puts one query to the state it starts in,
\* and an availability query a second time.
NoRequest == [op |-> "none"]

\* Untouched with the rows that occupy nothing dropped from the table.
UntouchedButPruned ==
    /\ last = NoRequest
    /\ bookings' = SelectSeq(bookings, Occupying)
    /\ UNCHANGED <<calendar, travel, inflight, raced, edited, handled>>

Untouched ==
    /\ last = NoRequest
    /\ UNCHANGED <<bookings, calendar, travel, inflight, raced, edited, handled>>

\* One run of validateBooking against the current table and providers.
Validate(req) ==
    /\ Untouched
    /\ last' = [op |-> "validate", req |-> req,
                res |-> [outcome |-> validateBooking(bookings, calendar, travel, req)]]

\* Availability that also books the first slot it returns.
AvailabilityHoldingSlot(req) ==
    LET res == availability(bookings, calendar, travel, req)
    IN /\ \/ last = NoRequest
          \/ last.op = "availability" /\ last.req = req /\ ~ last.repeated
       /\ last' = [op |-> "availability", req |-> req, res |-> res,
                   reads |-> availabilityReads(bookings, calendar, travel, req),
                   repeated |-> last # NoRequest,
                   prior |-> IF last = NoRequest THEN res ELSE last.res]
       /\ bookings' = IF res.slots = <<>> THEN bookings
                      ELSE Append(bookings, Row(req.date, res.slots[1], req.postcode,
                                                req.services, "pending"))
       /\ UNCHANGED <<calendar, travel, inflight, raced, edited, handled>>

\* One run of POST /api/availability, or the same request put a second time;
\* prior is the response to the first run.
Availability(req) ==
    LET res == availability(bookings, calendar, travel, req)
    IN /\ \/ last = NoRequest
          \/ last.op = "availability" /\ last.req = req /\ ~ last.repeated
       /\ last' = [op |-> "availability", req |-> req, res |-> res,
                   reads |-> availabilityReads(bookings, calendar, travel, req),
                   repeated |-> last # NoRequest,
                   prior |-> IF last = NoRequest THEN res ELSE last.res]
       /\ UNCHANGED <<bookings, calendar, travel, inflight, raced, edited, handled>>

DateAvailability(req) ==
    /\ Untouched
    /\ last' = [op |-> "dateAvailability", req |-> req,
                res |-> dateAvailability(bookings, travel, req)]

QueryInit ==
    /\ bookings \in TablesFrom(1, MaxRows)
    /\ calendar \in CalendarStates
    /\ travel \in TravelAnswers
    /\ inflight = <<>>
    /\ last = NoRequest
    /\ raced = FALSE
    /\ edited = FALSE
    /\ handled = 0

QueryNext ==
    \/ \E req \in ValidateRequests : Validate(req)
    \/ \E req \in AvailabilityRequests : Availability(req)
    \/ \E req \in RangeRequests : DateAvailability(req)

QuerySpec == QueryInit /\ [][QueryNext]_vars

\* ------------------------------------------------------------ booking routes
CreateRequest(name, date, postcode, services, time) ==
    [name |-> name, date |-> date, postcode |-> postcode, services |-> services,
     preferred_time |-> time]

CreateRequests ==
    {CreateRequest("Ann", Friday, "AB1", NoServices, T(9, 0)),
     CreateRequest("Ann", Friday, "AB1", NoServices, T(10, 0)),
     CreateRequest("Ann", Friday, "ZZ9", NoServices, T(10, 30)),
     CreateRequest("Ann", Friday, "AB1", NegativeWash, T(9, 30)),
     CreateRequest("Ann", Friday, "AB1", NoServices, Malformed),
     CreateRequest("Ann", Friday, "AB1", NumberedService, T(10, 0)),
     CreateRequest("Ann", Monday, "AB1", NoServices, T(9, 0)),
          CreateRequest("Ann", Saturday, "AB1", NoServices, T(9, 0)),
          CreateRequest("", Friday, "AB1", NoServices, T(9, 0))}

\* CreateOutcome with a request that fails only the travel test passed on to
\* its INSERT.
CreateOutcomeIgnoringTravel(table, cal, tr, req) ==
    IF req.name = "" \/ req.postcode = "" \/ req.date = NoDate
       \/ req.preferred_time = <<>>
    THEN "MISSING_FIELDS"
    ELSE LET thrown == validateBooking(table, cal, tr,
                ValidateRequest(req.date, req.postcode, req.services, req.preferred_time))
         IN IF thrown = "TypeError" THEN "Failed to create booking"
            ELSE IF thrown = "TRAVEL_TOO_FAR" THEN "ok"
            ELSE thrown

\* POST /api/bookings up to the return of validateBooking: the route's own
\* presence check, then the validation. A request that passes waits in
\* inflight for its INSERT; one that fails is answered with its error: the
\* error field of a thrown object that has a code, else the 500 of the catch.
CreateOutcome(table, cal, tr, req) ==
    IF req.name = "" \/ req.postcode = "" \/ req.date = NoDate
       \/ req.preferred_time = <<>>
    THEN "MISSING_FIELDS"
    ELSE LET thrown == validateBooking(table, cal, tr,
                ValidateRequest(req.date, req.postcode, req.services, req.preferred_time))
         IN IF thrown = "TypeError" THEN "Failed to create booking" ELSE thrown

CreateValidate(req) ==
    /\ LET outcome == CreateOutcome(bookings, calendar, travel, req)
       IN /\ inflight' = IF outcome = "ok" THEN Append(inflight, req) ELSE inflight
          /\ raced' = (raced \/ (outcome = "ok" /\ inflight # <<>>))
          /\ last' = [op |-> "createValidate", res |-> [outcome |-> outcome]]
    /\ UNCHANGED <<bookings, calendar, travel, edited, handled>>

\* CreateInsert validating once more against the table of the moment of the
\* INSERT, and dropping the request when that fails.
CreateInsertRevalidating(k) ==
    /\ k \in 1..Len(inflight)
    /\ CreateOutcome(bookings, calendar, travel, inflight[k]) = "ok"
    /\ LET req == inflight[k]
       IN bookings' = Append(bookings,
            Row(req.date, req.preferred_time, req.postcode, req.services, "pending"))
    /\ inflight' = [j \in 1..(Len(inflight) - 1) |->
                        IF j < k THEN inflight[j] ELSE inflight[j + 1]]
    /\ last' = [op |-> "createInsert", res |-> [outcome |-> "ok"]]
    /\ UNCHANGED <<calendar, travel, raced, edited, handled>>

\* The INSERT of a validated request; status takes the column default.
CreateInsert(k) ==
    /\ k \in 1..Len(inflight)
    /\ LET req == inflight[k]
       IN bookings' = Append(bookings,
            Row(req.date, req.preferred_time, req.postcode, req.services, "pending"))
    /\ inflight' = [j \in 1..(Len(inflight) - 1) |->
                        IF j < k THEN inflight[j] ELSE inflight[j + 1]]
    /\ last' = [op |-> "createInsert", res |-> [outcome |-> "ok"]]
    /\ UNCHANGED <<calendar, travel, raced, edited, handled>>

\* PATCH /api/bookings/:id/status with an allowed status.
PatchStatus(k, status) ==
    /\ handled < MaxAdminOps
    /\ k \in 1..Len(bookings)
    /\ status \in {"pending", "confirmed", "declined", "cancelled"}
    /\ handled' = handled + 1
    /\ bookings' = [bookings EXCEPT ![k].status = status]
    /\ edited' = (edited \/ (~ Occupying(bookings[k]) /\ Occupying(bookings'[k])))
    /\ last' = [op |-> "patchStatus", res |-> [outcome |-> "ok"]]
    /\ UNCHANGED <<calendar, travel, inflight, raced>>

\* PATCH /api/bookings/:id: each column keeps its value unless the body
\* carries one (COALESCE); nothing is validated.
Patches ==
    {[time |-> T(9, 0)], [postcode |-> "ZZ9"], [date |-> Friday],
     [services |-> FullLarge], [status |-> "pending"]}

PatchBooking(k, patch) ==
    /\ handled < MaxAdminOps
    /\ k \in 1..Len(bookings)
    /\ handled' = handled + 1
    /\ bookings' = [bookings EXCEPT ![k] =
            [f \in DOMAIN bookings[k] |->
                IF f \in DOMAIN patch THEN patch[f] ELSE bookings[k][f]]]
    /\ edited' = TRUE
    /\ last' = [op |-> "patchBooking", res |-> [outcome |-> "ok"]]
    /\ UNCHANGED <<calendar, travel, inflight, raced>>

\* DELETE /api/bookings/history
DeleteHistory ==
    /\ handled < MaxAdminOps
    /\ handled' = handled + 1
    /\ bookings' = SelectSeq(bookings,
            LAMBDA row : row.status \notin {"confirmed", "declined"})
    /\ last' = [op |-> "deleteHistory", res |-> [outcome |-> "ok"]]
    /\ UNCHANGED <<calendar, travel, inflight, raced, edited>>

LifecycleTravel ==
    {tr \in TravelAnswers :
        /\ tr[<<"AB1", "ZZ9">>] = tr[<<"ZZ9", "AB1">>]
        /\ tr[<<"AB1", "ZZ9">>] \in {1200, 1230}}

Init ==
    /\ bookings = <<>>
    /\ calendar \in {cal \in CalendarStates : cal.up}
    /\ travel \in LifecycleTravel
    /\ inflight = <<>>
    /\ last = NoRequest
    /\ raced = FALSE
    /\ edited = FALSE
    /\ handled = 0

\* At most MaxBookings requests are accepted and at most MaxInflight of them
\* wait for their INSERT at one time.
Next ==
    \/ /\ Len(bookings) + Len(inflight) < MaxBookings
       /\ Len(inflight) < MaxInflight
       /\ \E req \in CreateRequests : CreateValidate(req)
    \/ \E k \in 1..MaxInflight : CreateInsert(k)
    \/ \E k \in 1..MaxBookings, status \in {"pending", "confirmed", "declined", "cancelled"} :
            PatchStatus(k, status)
    \/ \E k \in 1..MaxBookings, patch \in Patches : PatchBooking(k, patch)
    \/ DeleteHistory

Spec == Init /\ [][Next]_vars

\* ------------------------------------------------------------ one day's route
\* Creations handled one at a time and status changes on one date among
\* three places, each job ending when the next time of the day starts.
RoutePlaces == {"AB1", "ZZ9", "MM5"}

\* Within one place 0 minutes; from AB1 21 minutes to one of the other two
\* places and 20 minutes to the other; every other way 20 minutes.
RouteTravel ==
    {tr \in [RoutePlaces \X RoutePlaces -> {0, 1200, 1230}] :
        /\ \A p \in RoutePlaces : tr[<<p, p>>] = 0
        /\ {tr[<<"AB1", "ZZ9">>], tr[<<"AB1", "MM5">>]} = {1200, 1230}
        /\ \A p \in RoutePlaces \ {"AB1"} :
                \A q \in RoutePlaces \ {p} : tr[<<p, q>>] = 1200}

RouteRequests ==
    {CreateRequest("Ann", Friday, postcode, NoServices, time) :
        postcode \in RoutePlaces, time \in {T(9, 0), T(10, 30), T(12, 0)}}

RouteInit ==
    /\ bookings = <<>>
    /\ calendar = [up |-> TRUE, blocks |-> <<>>]
    /\ travel \in RouteTravel
    /\ inflight = <<>>
    /\ last = NoRequest
    /\ raced = FALSE
    /\ edited = FALSE
    /\ handled = 0

RouteNext ==
    \/ /\ Len(bookings) < MaxRoute
       /\ inflight = <<>>
       /\ \E req \in RouteRequests : CreateValidate(req)
    \/ \E k \in 1..MaxInflight : CreateInsert(k)
    \/ \E k \in 1..MaxRoute, status \in {"declined", "cancelled"} : PatchStatus(k, status)

RouteSpec == RouteInit /\ [][RouteNext]_vars

\* ------------------------------------------------------------ duration estimate
\* The estimator on its own: one call of estimateBookingDurationMinutes on a
\* services value made of at most MaxItems items of the pool.
Item(serviceId, size, quantity) ==
    [serviceId |-> serviceId, size |-> size, quantity |-> quantity]

ItemPool ==
    {Item(id, size, 1) :
        id \in {"basic_wash", "BASIC_WASH", "exterior_detailed", "full_detailed",
                "Full_Detailed", "valet", "", "#7"},
        size \in {"", "small", "medium", "large", "LARGE", "Medium", "#7"}}
    \cup {Item("basic_wash", "", q) : q \in {0, 2, 0 - 1}}
    \cup {Item("full_detailed", "large", q) : q \in {0, 2, 3}}

ItemLists(n) == [1..n -> ItemPool]

Estimate(services) ==
    /\ last' = [op |-> "estimate", req |-> services,
                res |-> estimateBookingDurationMinutes(services)]
    /\ UNCHANGED <<bookings, calendar, travel, inflight, raced, edited, handled>>

EstimatorInit ==
    /\ bookings = <<>>
    /\ calendar = [up |-> TRUE, blocks |-> <<>>]
    /\ travel = [pair \in Places \X Places |-> 0]
    /\ inflight = <<>>
    /\ last = NoRequest
    /\ raced = FALSE
    /\ edited = FALSE
    /\ handled = 0

\* One call per behaviour.
EstimatorNext ==
    /\ last = NoRequest
    /\ \/ \E n \in 0..MaxItems : \E services \in ItemLists(n) : Estimate(services)
       \/ Estimate(NotAList)

EstimatorSpec == EstimatorInit /\ [][EstimatorNext]_vars

\* ------------------------------------------------------------ earlier servers
\* The two earlier versions of the server kept in the repository. Each is a
\* program of its own with its own table; a behaviour of LegacySpec runs one of
\* them, and bookings is that program's table.

\* POST /api/bookings of src/server.js: the body goes straight to the INSERT.
LegacyCreate(req) ==
    /\ last = NoRequest \/ last.op = "legacyCreate"
    /\ Len(bookings) < MaxBookings
    /\ bookings' = Append(bookings,
            Row(req.date, req.preferred_time, req.postcode, req.services, "pending"))
    /\ last' = [op |-> "legacyCreate", res |-> [outcome |-> "ok"]]
    /\ UNCHANGED <<calendar, travel, inflight, raced, edited, handled>>

\* POST /api/bookings of the server with GLSTN- ids: a presence check, then
\* the INSERT; its table has no time column.
LegacyCreateWithId(req) ==
    /\ last = NoRequest \/ last.op = "legacyCreateWithId"
    /\ Len(bookings) < MaxBookings
    /\ IF req.name = "" \/ req.postcode = "" \/ req.date = NoDate
       THEN /\ last' = [op |-> "legacyCreateWithId",
                        res |-> [outcome |-> "Missing required fields"]]
            /\ UNCHANGED bookings
       ELSE /\ last' = [op |-> "legacyCreateWithId", res |-> [outcome |-> "ok"]]
            /\ bookings' = Append(bookings,
                    Row(req.date, <<>>, req.postcode, req.services, "pending"))
    /\ UNCHANGED <<calendar, travel, inflight, raced, edited, handled>>

LegacyInit ==
    /\ bookings = <<>>
    /\ calendar \in CalendarStates
    /\ travel \in TravelAnswers
    /\ inflight = <<>>
    /\ last = NoRequest
    /\ raced = FALSE
    /\ edited = FALSE
    /\ handled = 0

LegacyNext ==
    \/ \E req \in CreateRequests : LegacyCreate(req)
    \/ \E req \in CreateRequests : LegacyCreateWithId(req)

LegacySpec == LegacyInit /\ [][LegacyNext]_vars

\* ------------------------------------------------------------ properties
\* C1: when create requests are handled one at a time and no row is edited or
\* brought back to an occupying status, any two pending or confirmed rows of
\* one date have occupied intervals [start, start + duration + 30) for which
\* max(A.start, B.start) < min(A.end, B.end) is false.
C1_NoOverlapSequential ==
    (~ raced /\ ~ edited) =>
        \A i, j \in 1..Len(bookings) :
            LET a == bookings[i]
                b == bookings[j]
                aStart == timeStringToMinutes(a.time)
                bStart == timeStringToMinutes(b.time)
                aEnd == JsAdd(aStart, estimateBookingDurationMinutes(a.services) + 30)
                bEnd == JsAdd(bStart, estimateBookingDurationMinutes(b.services) + 30)
            IN (/\ i < j
                /\ a.date = b.date
                /\ a.status \in {"pending", "confirmed"}
                /\ b.status \in {"pending", "confirmed"})
               => ~ JsLt(JsMax(aStart, bStart), JsMin(aEnd, bEnd))

\* Two occupying rows of one date with well-formed times, created one after
\* the other, after a request for a taken time was refused.
C1_Witness ==
    /\ ~ raced /\ ~ edited
    /\ Len(bookings) = 2
    /\ bookings[1].date = bookings[2].date
    /\ \A k \in 1..2 : /\ bookings[k].status \in {"pending", "confirmed"}
                       /\ timeStringToMinutes(bookings[k].time) # NaN
                       /\ bookings[k].services = NoServices
    /\ timeStringToMinutes(bookings[2].time)
            = timeStringToMinutes(bookings[1].time) + 90

\* C2: no start time in a slot list of POST /api/availability fails
\* validateBooking, for the same date, postcode and services against the same
\* table, calendar and travel answers, with TIME_TAKEN or TRAVEL_TOO_FAR.
C2_SlotsPassValidate ==
    last.op = "availability" =>
        \A k \in 1..Len(last.res.slots) :
            validateBooking(bookings, calendar, travel,
                ValidateRequest(last.req.date, last.req.postcode,
                                last.req.services, last.res.slots[k]))
                \notin {"TIME_TAKEN", "TRAVEL_TOO_FAR"}

\* A non-empty slot list on a day that has an occupying booking at another
\* place and a slot that ends before that booking starts.
C2_Witness ==
    /\ last.op = "availability"
    /\ Len(last.res.slots) > 0
    /\ \E k \in 1..Len(bookings) :
            /\ bookings[k].date = last.req.date
            /\ bookings[k].status \in {"pending", "confirmed"}
            /\ bookings[k].postcode # last.req.postcode
            /\ bookings[k].postcode # ""
            /\ \E n \in 1..Len(last.res.slots) :
                    timeStringToMinutes(last.res.slots[n])
                        < timeStringToMinutes(bookings[k].time)

\* C3: the outcome of validateBooking is the first failing check in the order
\* MISSING_FIELDS, OUTSIDE_WORKING_DAYS, OUTSIDE_WORKING_HOURS,
\* OUT_OF_AREA_FOR_DAY, TIME_TAKEN, TRAVEL_TOO_FAR, each check taken on its own.
C3_FirstFailureInOrder ==
    last.op = "validate" =>
        LET req == last.req
            start == timeStringToMinutes(req.preferred_time)
            end == JsAdd(start, estimateBookingDurationMinutes(req.services) + 30)
            rows == SelectForDate(bookings, req.date)
            intervals == BuildIntervals(rows, getBusyIntervalsForDate(calendar, req.date))
            fails ==
                << req.date = NoDate \/ req.postcode = "" \/ req.preferred_time = <<>>,
                   ~ isWorkingDay(req.date),
                   JsLt(start, WORK_START) \/ JsGt(end, WORK_END),
                   Len(rows) > 0 /\ AllFar(travel, req.postcode, rows),
                   Overlaps(intervals, start, end),
                   \/ PrevTooFar(travel, intervals, req.postcode, start)
                   \/ NextTooFar(travel, intervals, req.postcode, end) >>
            kinds == << "MISSING_FIELDS", "OUTSIDE_WORKING_DAYS",
                        "OUTSIDE_WORKING_HOURS", "OUT_OF_AREA_FOR_DAY",
                        "TIME_TAKEN", "TRAVEL_TOO_FAR" >>
            failing == {n \in 1..6 : fails[n]}
        IN IF failing = {} THEN last.res.outcome = "ok"
           ELSE last.res.outcome =
                    kinds[CHOOSE n \in failing : \A m \in failing : n <= m]

\* A request that overlaps an existing booking while every booking of the day
\* is out of reach is refused as out of area.
C3_Witness ==
    /\ last.op = "validate"
    /\ last.res.outcome = "OUT_OF_AREA_FOR_DAY"
    /\ LET req == last.req
           start == timeStringToMinutes(req.preferred_time)
           end == JsAdd(start, estimateBookingDurationMinutes(req.services) + 30)
       IN Overlaps(BuildIntervals(SelectForDate(bookings, req.date), <<>>), start, end)

\* C4 as stated: validateBooking for a Saturday or Sunday date fails with
\* OUTSIDE_WORKING_DAYS whatever the other fields are, absent ones included.
C4_WeekendWhateverFields ==
    (/\ last.op = "validate"
     /\ last.req.date # NoDate
     /\ last.req.date % 7 \in {0, 6})
        => last.res.outcome = "OUTSIDE_WORKING_DAYS"

\* C4: validateBooking for a Saturday or Sunday date fails with
\* OUTSIDE_WORKING_DAYS whatever the services and the values of postcode and
\* time are, when postcode and time are present.
C4_WeekendWhenFieldsPresent ==
    (/\ last.op = "validate"
     /\ last.req.date # NoDate
     /\ last.req.date % 7 \in {0, 6}
     /\ last.req.postcode # ""
     /\ last.req.preferred_time # <<>>)
        => last.res.outcome = "OUTSIDE_WORKING_DAYS"

\* A Saturday request whose time is also before the working hours.
C4_Witness ==
    /\ last.op = "validate"
    /\ last.req.date % 7 = 6
    /\ last.req.postcode # ""
    /\ timeStringToMinutes(last.req.preferred_time) # NaN
    /\ timeStringToMinutes(last.req.preferred_time) < WORK_START
    /\ last.res.outcome = "OUTSIDE_WORKING_DAYS"

C6_AreaGate ==
    LET occupyingOn(date) ==
            {k \in 1..Len(bookings) :
                /\ bookings[k].date = date
                /\ bookings[k].status \in {"pending", "confirmed"}}
        inArea(date, postcode) ==
            \/ occupyingOn(date) = {}
            \/ \E k \in occupyingOn(date) :
                    getTravelTimeMinutes(travel, postcode, bookings[k].postcode) <= 20
    IN /\ last.op = "validate" =>
            LET req == last.req
                start == timeStringToMinutes(req.preferred_time)
                end == JsAdd(start, estimateBookingDurationMinutes(req.services) + 30)
            IN (/\ req.date # NoDate /\ req.postcode # "" /\ req.preferred_time # <<>>
                /\ isWorkingDay(req.date)
                /\ ~ JsLt(start, WORK_START) /\ ~ JsGt(end, WORK_END))
               => (last.res.outcome = "OUT_OF_AREA_FOR_DAY"
                        <=> ~ inArea(req.date, req.postcode))
       /\ (/\ last.op = "availability"
           /\ last.req.date # NoDate /\ last.req.postcode # ""
           /\ isWorkingDay(last.req.date)
           /\ ~ inArea(last.req.date, last.req.postcode))
          => last.res.slots = <<>>
       /\ last.op = "dateAvailability" =>
            \A n \in 1..Len(last.res.dates) :
                isWorkingDay(last.res.dates[n].date)
                => (last.res.dates[n].in_area
                        <=> inArea(last.res.dates[n].date, last.req.postcode))

\* C6 for the date range without the time-zone shift of the day labels.
C6_AreaGateNoShift ==
    (last.op = "dateAvailability" => ~ last.req.tzAhead) => C6_AreaGate

\* C7: a travel-time query that fails counts as longer than the limit: no
\* request is accepted by validateBooking and no start is returned by POST
\* /api/availability when the query for its previous or its next job fails,
\* and a day with occupying bookings whose gate queries all fail is refused as
\* out of area.
C7_FailClosed ==
    LET queryFails(from, to) ==
            \/ from = ""
            \/ to = ""
            \/ travel[<<ProviderPlace(Trim(from)), ProviderPlace(Trim(to))>>] = Fail
        rowsOn(date) == SelectForDate(bookings, date)
        jobsOn(date) ==
            BookingIntervals(BuildIntervals(rowsOn(date),
                                            getBusyIntervalsForDate(calendar, date)))
        neighbourFails(date, postcode, start, end) ==
            LET prev == PrevOf(jobsOn(date), start)
                next == NextOf(jobsOn(date), end)
            IN \/ prev # <<>> /\ queryFails(prev[1].postcode, postcode)
               \/ next # <<>> /\ queryFails(postcode, next[1].postcode)
        gateFails(date, postcode) ==
            /\ Len(rowsOn(date)) > 0
            /\ \A k \in 1..Len(rowsOn(date)) :
                    queryFails(postcode, rowsOn(date)[k].postcode)
    IN /\ last.op = "validate" =>
            LET req == last.req
                start == timeStringToMinutes(req.preferred_time)
                end == JsAdd(start, estimateBookingDurationMinutes(req.services) + 30)
            IN /\ last.res.outcome = "ok" =>
                    /\ ~ neighbourFails(req.date, req.postcode, start, end)
                    /\ ~ gateFails(req.date, req.postcode)
               /\ (/\ req.date # NoDate /\ req.postcode # "" /\ req.preferred_time # <<>>
                   /\ isWorkingDay(req.date)
                   /\ ~ JsLt(start, WORK_START) /\ ~ JsGt(end, WORK_END)
                   /\ gateFails(req.date, req.postcode))
                  => last.res.outcome = "OUT_OF_AREA_FOR_DAY"
       /\ last.op = "availability" =>
            LET req == last.req
                duration == estimateBookingDurationMinutes(req.services) + 30
            IN /\ \A n \in 1..Len(last.res.slots) :
                    LET start == timeStringToMinutes(last.res.slots[n])
                    IN ~ neighbourFails(req.date, req.postcode, start, start + duration)
               /\ gateFails(req.date, req.postcode) => last.res.slots = <<>>

\* A request in the area of the day whose previous job is at the other place,
\* the query from that place failing: it is refused as too far.
C7_Witness ==
    /\ last.op = "validate"
    /\ last.res.outcome = "TRAVEL_TOO_FAR"
    /\ LET req == last.req
           jobs == BookingIntervals(BuildIntervals(SelectForDate(bookings, req.date), <<>>))
           prev == PrevOf(jobs, timeStringToMinutes(req.preferred_time))
       IN /\ prev # <<>>
          /\ prev[1].postcode \in Places
          /\ travel[<<prev[1].postcode, req.postcode>>] = Fail

\* C8: a candidate [cs, ce) at a postcode is feasible exactly when the booking
\* with the latest end <= cs, if there is one, is within 20 minutes of the
\* postcode and the booking with the earliest start >= ce, if there is one, is
\* within 20 minutes from it; calendar blocks are never the previous or the
\* next job, 20 minutes exactly is accepted. Of several bookings with the same
\* latest end or earliest start the first in the order of the query counts.
C8_TravelFeasibility ==
    LET intervalsOn(date) ==
            BuildIntervals(SelectForDate(bookings, date),
                           getBusyIntervalsForDate(calendar, date))
        feasible(date, postcode, cs, ce) ==
            LET iv == intervalsOn(date)
                jobs == {k \in 1..Len(iv) : iv[k].postcode # ""}
                before == {k \in jobs : JsLe(iv[k].end, cs)}
                after == {k \in jobs : JsGe(iv[k].start, ce)}
                isPrev(k) ==
                    /\ k \in before
                    /\ \A j \in before :
                        \/ iv[j].end < iv[k].end
                        \/ iv[j].end = iv[k].end /\ k <= j
                isNext(k) ==
                    /\ k \in after
                    /\ \A j \in after :
                        \/ iv[j].start > iv[k].start
                        \/ iv[j].start = iv[k].start /\ k <= j
            IN /\ \A k \in jobs : isPrev(k) =>
                    getTravelTimeMinutes(travel, iv[k].postcode, postcode) <= 20
               /\ \A k \in jobs : isNext(k) =>
                    getTravelTimeMinutes(travel, postcode, iv[k].postcode) <= 20
    IN /\ (last.op = "validate" /\ last.res.outcome \in {"ok", "TRAVEL_TOO_FAR"}) =>
            LET req == last.req
                start == timeStringToMinutes(req.preferred_time)
                end == JsAdd(start, estimateBookingDurationMinutes(req.services) + 30)
            IN last.res.outcome = "ok" <=> feasible(req.date, req.postcode, start, end)
       /\ (/\ last.op = "availability"
           /\ last.req.date # NoDate /\ last.req.postcode # ""
           /\ isWorkingDay(last.req.date)
           /\ \/ Len(SelectForDate(bookings, last.req.date)) = 0
              \/ ~ AllFar(travel, last.req.postcode, SelectForDate(bookings, last.req.date))) =>
            LET req == last.req
                duration == estimateBookingDurationMinutes(req.services) + 30
                returned == {timeStringToMinutes(last.res.slots[n]) :
                                n \in 1..Len(last.res.slots)}
            IN \A step \in 0..40 :
                LET cs == WORK_START + 15 * step
                IN (cs + duration <= WORK_END
                        /\ ~ Overlaps(intervalsOn(req.date), cs, cs + duration))
                   => (cs \in returned
                        <=> feasible(req.date, req.postcode, cs, cs + duration))

\* A request accepted right after a booking at the other place, 20 minutes
\* away, with a calendar block ending later than that booking before it.
C8_Witness ==
    /\ last.op = "validate"
    /\ last.res.outcome = "ok"
    /\ calendar.up /\ calendar.blocks # <<>>
    /\ LET req == last.req
           start == timeStringToMinutes(req.preferred_time)
           jobs == BookingIntervals(BuildIntervals(SelectForDate(bookings, req.date), <<>>))
           prev == PrevOf(jobs, start)
       IN /\ prev # <<>>
          /\ prev[1].postcode \in Places \ {req.postcode}
          /\ travel[<<prev[1].postcode, req.postcode>>] = 1200
          /\ prev[1].end < calendar.blocks[1].end
          /\ calendar.blocks[1].end <= start

\* C9: the 30-minute buffer is added to every booking interval and never to
\* a calendar block: a request that starts fewer than 30 minutes after the
\* service time of an occupying booking ends is refused with TIME_TAKEN by
\* validateBooking (once the earlier checks pass) and is in no slot list, and a
\* request that starts at the end of a calendar block gets the outcome it
\* gets without that block.
C9_BufferOnBookingsOnly ==
    LET rows(date) == SelectForDate(bookings, date)
        serviceEnd(row) ==
            JsAdd(timeStringToMinutes(row.time),
                  estimateBookingDurationMinutes(row.services))
        inBuffer(date, start) ==
            \E k \in 1..Len(rows(date)) :
                /\ JsLe(serviceEnd(rows(date)[k]), start)
                /\ JsLt(start, JsAdd(serviceEnd(rows(date)[k]), 30))
    IN /\ last.op = "validate" =>
            LET req == last.req
                start == timeStringToMinutes(req.preferred_time)
                end == JsAdd(start, estimateBookingDurationMinutes(req.services) + 30)
            IN /\ (/\ req.date # NoDate /\ req.postcode # "" /\ req.preferred_time # <<>>
                   /\ isWorkingDay(req.date)
                   /\ ~ JsLt(start, WORK_START) /\ ~ JsGt(end, WORK_END)
                   /\ ~ AllFar(travel, req.postcode, rows(req.date))
                   /\ inBuffer(req.date, start))
                  => last.res.outcome = "TIME_TAKEN"
               /\ (calendar.up /\ \A n \in 1..Len(calendar.blocks) :
                                        calendar.blocks[n].end = start)
                  => last.res.outcome =
                        validateBooking(bookings, [up |-> TRUE, blocks |-> <<>>],
                                        travel, req)
       /\ last.op = "availability" =>
            \A n \in 1..Len(last.res.slots) :
                ~ inBuffer(last.req.date, timeStringToMinutes(last.res.slots[n]))

\* C9 for requests and bookings whose duration with the buffer is positive.
C9_BufferPositiveDurations ==
    (/\ last.op \in {"validate", "availability"}
     /\ estimateBookingDurationMinutes(last.req.services) + 30 > 0
     /\ \A k \in 1..Len(bookings) :
            estimateBookingDurationMinutes(bookings[k].services) >= 0)
        => C9_BufferOnBookingsOnly

\* C10: every request validateBooking accepts has 08:30 <= start and
\* end <= 16:30; a request with its fields present on a working day with
\* start < 08:30 or end > 16:30 fails with OUTSIDE_WORKING_HOURS; start = 08:30
\* and end = 16:30 are not refused for that reason.
C10_InsideWorkingHours ==
    last.op = "validate" =>
        LET req == last.req
            start == timeStringToMinutes(req.preferred_time)
            end == JsAdd(start, estimateBookingDurationMinutes(req.services) + 30)
            present == req.date # NoDate /\ req.postcode # "" /\ req.preferred_time # <<>>
        IN /\ last.res.outcome = "ok" =>
                (JsLe(8 * 60 + 30, start) /\ JsLe(end, 16 * 60 + 30))
           /\ (present /\ isWorkingDay(req.date)
                    /\ (JsLt(start, 8 * 60 + 30) \/ JsGt(end, 16 * 60 + 30)))
              => last.res.outcome = "OUTSIDE_WORKING_HOURS"
           /\ (JsGe(start, 8 * 60 + 30) /\ JsLe(end, 16 * 60 + 30))
              => last.res.outcome # "OUTSIDE_WORKING_HOURS"

\* C10 for requests whose time string has numeric hours and minutes.
C10_InsideWorkingHoursWellFormed ==
    (last.op = "validate" /\ timeStringToMinutes(last.req.preferred_time) # NaN)
        => C10_InsideWorkingHours

\* C11: on a working day that passes the area gate, the slot list of
\* POST /api/availability is strictly ascending and holds exactly the starts
\* 08:30 + 15k whose end, start + duration + 30, is at most 16:30, that overlap
\* no booking interval (with buffer) and no calendar block, and whose closest
\* preceding and following bookings with a postcode are within 20 minutes;
\* where several bookings tie for closest, either may decide.
C11_SlotGridExact ==
    (/\ last.op = "availability"
     /\ last.req.date # NoDate /\ last.req.postcode # ""
     /\ isWorkingDay(last.req.date)
     /\ \/ SelectForDate(bookings, last.req.date) = <<>>
        \/ ~ AllFar(travel, last.req.postcode, SelectForDate(bookings, last.req.date)))
    =>
    LET req == last.req
        d == estimateBookingDurationMinutes(req.services) + 30
        rows == {bookings[k] : k \in {j \in 1..Len(bookings) :
                    bookings[j].date = req.date
                    /\ bookings[j].status \in {"pending", "confirmed"}}}
        blocks == IF calendar.up
                  THEN {calendar.blocks[k] : k \in {j \in 1..Len(calendar.blocks) :
                            calendar.blocks[j].date = req.date}}
                  ELSE {}
        rowStart(r) == timeStringToMinutes(r.time)
        rowEnd(r) == JsAdd(rowStart(r), estimateBookingDurationMinutes(r.services) + 30)
        grid == {8 * 60 + 30 + 15 * k : k \in 0..40}
        fits == {s \in grid : s + d <= 16 * 60 + 30}
        free(s) ==
            /\ \A r \in rows : ~ JsLt(JsMax(s, rowStart(r)), JsMin(s + d, rowEnd(r)))
            /\ \A b \in blocks : ~ JsLt(JsMax(s, b.start), JsMin(s + d, b.end))
        located == {r \in rows : r.postcode # ""}
        before(s) == {r \in located : JsLe(rowEnd(r), s)}
        after(s) == {r \in located : JsGe(rowStart(r), s + d)}
        prevs(s) == {r \in before(s) : \A q \in before(s) : rowEnd(q) <= rowEnd(r)}
        nexts(s) == {r \in after(s) : \A q \in after(s) : rowStart(q) >= rowStart(r)}
        near(from, to) == getTravelTimeMinutes(travel, from, to) <= 20
        surely(s) ==
            /\ free(s)
            /\ \A r \in prevs(s) : near(r.postcode, req.postcode)
            /\ \A r \in nexts(s) : near(req.postcode, r.postcode)
        maybe(s) ==
            /\ free(s)
            /\ prevs(s) # {} => \E r \in prevs(s) : near(r.postcode, req.postcode)
            /\ nexts(s) # {} => \E r \in nexts(s) : near(req.postcode, r.postcode)
        slots == last.res.slots
        returned == {timeStringToMinutes(slots[n]) : n \in 1..Len(slots)}
    IN /\ last.res.code = 200
       /\ \A n \in 1..Len(slots) : slots[n] = minutesToTimeString(timeStringToMinutes(slots[n]))
       /\ \A n \in 1..(Len(slots) - 1) :
            timeStringToMinutes(slots[n]) < timeStringToMinutes(slots[n + 1])
       /\ {s \in fits : surely(s)} \subseteq returned
       /\ returned \subseteq {s \in fits : maybe(s)}
       /\ (rows = {} /\ blocks = {}) => returned = fits

\* A slot list on a day with an occupying booking and a calendar block: some
\* grid starts are left out for overlap, the last start that fits is returned.
C11_Witness ==
    /\ last.op = "availability"
    /\ isWorkingDay(last.req.date)
    /\ \E k \in 1..Len(bookings) :
            bookings[k].date = last.req.date /\ Occupying(bookings[k])
    /\ getBusyIntervalsForDate(calendar, last.req.date) # <<>>
    /\ Len(last.res.slots) > 0
    /\ Len(last.res.slots)
            < Len(CandidateStarts(estimateBookingDurationMinutes(last.req.services) + 30))
    /\ last.res.slots[Len(last.res.slots)]
            = minutesToTimeString(16 * 60 + 30
                    - (estimateBookingDurationMinutes(last.req.services) + 30))

\* C12: a candidate [s, s + d) is refused against an occupying interval
\* [a, b) exactly when max(s, a) < min(s + d, b): validateBooking, once its
\* earlier checks pass, answers TIME_TAKEN exactly then, and no returned slot
\* is such a candidate. With one booking at 09:00 for a 60-minute service at
\* the postcode of a 60-minute request and no calendar block, the slot list
\* has no start from 08:30 through 10:15 and begins with 10:30.
C12_HalfOpenOverlap ==
    LET date == last.req.date
        rows == {bookings[k] : k \in {j \in 1..Len(bookings) :
                    bookings[j].date = date
                    /\ bookings[j].status \in {"pending", "confirmed"}}}
        blocks == IF calendar.up
                  THEN {calendar.blocks[k] : k \in {j \in 1..Len(calendar.blocks) :
                            calendar.blocks[j].date = date}}
                  ELSE {}
        d == estimateBookingDurationMinutes(last.req.services) + 30
        rowStart(r) == timeStringToMinutes(r.time)
        rowEnd(r) == JsAdd(rowStart(r), estimateBookingDurationMinutes(r.services) + 30)
        meets(s) ==
            \/ \E r \in rows : JsLt(JsMax(s, rowStart(r)), JsMin(JsAdd(s, d), rowEnd(r)))
            \/ \E b \in blocks : JsLt(JsMax(s, b.start), JsMin(JsAdd(s, d), b.end))
    IN /\ last.op = "validate" =>
            LET s == timeStringToMinutes(last.req.preferred_time)
            IN last.res.outcome \notin {"MISSING_FIELDS", "OUTSIDE_WORKING_DAYS",
                                        "OUTSIDE_WORKING_HOURS", "OUT_OF_AREA_FOR_DAY"}
               => (last.res.outcome = "TIME_TAKEN" <=> meets(s))
       /\ last.op = "availability" =>
            /\ \A n \in 1..Len(last.res.slots) :
                    ~ meets(timeStringToMinutes(last.res.slots[n]))
            /\ (/\ last.req = AvailabilityRequest(Friday, "AB1", NoServices)
                /\ SelectForDate(bookings, Friday)
                        = <<Row(Friday, T(9, 0), "AB1", NoServices, "pending")>>
                /\ blocks = {}
                /\ travel[<<"AB1", "AB1">>] = 0)
               => /\ \A n \in 1..Len(last.res.slots) :
                        ~ (/\ 8 * 60 + 30 <= timeStringToMinutes(last.res.slots[n])
                           /\ timeStringToMinutes(last.res.slots[n]) <= 10 * 60 + 15)
                  /\ Len(last.res.slots) > 0
                  /\ last.res.slots[1] = T(10, 30)

\* The scenario of C12: the one booking at 09:00, the 60-minute request at the
\* same postcode, and 10:30 at the head of the slot list.
C12_Witness ==
    /\ last.op = "availability"
    /\ last.req = AvailabilityRequest(Friday, "AB1", NoServices)
    /\ SelectForDate(bookings, Friday)
            = <<Row(Friday, T(9, 0), "AB1", NoServices, "pending")>>
    /\ getBusyIntervalsForDate(calendar, Friday) = <<>>
    /\ travel[<<"AB1", "AB1">>] = 0
    /\ Len(last.res.slots) > 0
    /\ last.res.slots[1] = T(10, 30)

\* C13: no slot list of POST /api/availability holds a start whose closest
\* preceding booking with a postcode is more than 20 minutes from the
\* candidate postcode, or whose closest following one is more than 20 minutes
\* away from it, whether or not the start overlaps anything.
C13_TravelExcludesFreeSlot ==
    last.op = "availability" =>
        LET req == last.req
            d == estimateBookingDurationMinutes(req.services) + 30
            located == {bookings[k] : k \in {j \in 1..Len(bookings) :
                            /\ bookings[j].date = req.date
                            /\ bookings[j].status \in {"pending", "confirmed"}
                            /\ bookings[j].postcode # ""}}
            rowStart(r) == timeStringToMinutes(r.time)
            rowEnd(r) == JsAdd(rowStart(r), estimateBookingDurationMinutes(r.services) + 30)
            before(s) == {r \in located : JsLe(rowEnd(r), s)}
            after(s) == {r \in located : JsGe(rowStart(r), s + d)}
            prevs(s) == {r \in before(s) : \A q \in before(s) : rowEnd(q) <= rowEnd(r)}
            nexts(s) == {r \in after(s) : \A q \in after(s) : rowStart(q) >= rowStart(r)}
            farPrev(s) ==
                /\ prevs(s) # {}
                /\ \A r \in prevs(s) :
                        getTravelTimeMinutes(travel, r.postcode, req.postcode) > 20
            farNext(s) ==
                /\ nexts(s) # {}
                /\ \A r \in nexts(s) :
                        getTravelTimeMinutes(travel, req.postcode, r.postcode) > 20
        IN \A n \in 1..Len(last.res.slots) :
                LET s == timeStringToMinutes(last.res.slots[n])
                IN ~ farPrev(s) /\ ~ farNext(s)

\* A day that passes the area gate, with a non-empty slot list that leaves out
\* 10:30: the start touches the end of the 09:00-10:30 booking, overlaps
\* nothing, and that booking is more than 20 minutes away.
C13_Witness ==
    /\ last.op = "availability"
    /\ last.req.date = Friday
    /\ last.req.services = NoServices
    /\ Len(last.res.slots) > 0
    /\ \A n \in 1..Len(last.res.slots) : last.res.slots[n] # T(10, 30)
    /\ LET rows == SelectForDate(bookings, Friday)
           intervals == BuildIntervals(rows, getBusyIntervalsForDate(calendar, Friday))
           d == estimateBookingDurationMinutes(last.req.services) + 30
       IN /\ \E k \in 1..Len(rows) :
                /\ rows[k].time = T(9, 0) /\ rows[k].services = NoServices
                /\ rows[k].postcode # last.req.postcode
                /\ getTravelTimeMinutes(travel, rows[k].postcode, last.req.postcode) > 20
          /\ ~ Overlaps(intervals, 10 * 60 + 30, 10 * 60 + 30 + d)
          /\ 10 * 60 + 30 + d <= WORK_END

\* C14 as stated: on a working day whose only occupying interval is one
\* booking within 20 minutes of the candidate postcode, with no calendar
\* block, the slot list is non-empty whatever the requested services are.
C14_OneNearBookingAnyServices ==
    (/\ last.op = "availability"
     /\ isWorkingDay(last.req.date)
     /\ getBusyIntervalsForDate(calendar, last.req.date) = <<>>
     /\ Len(SelectForDate(bookings, last.req.date)) = 1
     /\ LET row == SelectForDate(bookings, last.req.date)[1]
        IN /\ getTravelTimeMinutes(travel, last.req.postcode, row.postcode) <= 20
           /\ getTravelTimeMinutes(travel, row.postcode, last.req.postcode) <= 20)
    => last.res.slots # <<>>

\* C14, amended: under the same conditions the slot list is non-empty for
\* every requested service list for which some start 08:30 + 15k ends by 16:30
\* without overlapping the booking's interval (with its buffer).
C14_OneNearBookingWhenItFits ==
    (/\ last.op = "availability"
     /\ isWorkingDay(last.req.date)
     /\ getBusyIntervalsForDate(calendar, last.req.date) = <<>>
     /\ Len(SelectForDate(bookings, last.req.date)) = 1
     /\ LET row == SelectForDate(bookings, last.req.date)[1]
            d == estimateBookingDurationMinutes(last.req.services) + 30
            a == timeStringToMinutes(row.time)
            b == JsAdd(a, estimateBookingDurationMinutes(row.services) + 30)
        IN /\ getTravelTimeMinutes(travel, last.req.postcode, row.postcode) <= 20
           /\ getTravelTimeMinutes(travel, row.postcode, last.req.postcode) <= 20
           /\ \E k \in 0..40 :
                LET s == 8 * 60 + 30 + 15 * k
                IN s + d <= 16 * 60 + 30 /\ ~ JsLt(JsMax(s, a), JsMin(s + d, b)))
    => last.res.slots # <<>>

\* One booking 20 minutes away in both directions, at another postcode, and a
\* non-empty slot list with starts before and after it.
C14_Witness ==
    /\ last.op = "availability"
    /\ last.req.date = Friday
    /\ getBusyIntervalsForDate(calendar, Friday) = <<>>
    /\ Len(SelectForDate(bookings, Friday)) = 1
    /\ LET row == SelectForDate(bookings, Friday)[1]
       IN /\ row.postcode # last.req.postcode
          /\ getTravelTimeMinutes(travel, last.req.postcode, row.postcode) = 20
          /\ getTravelTimeMinutes(travel, row.postcode, last.req.postcode) = 20
          /\ Len(last.res.slots) > 1
          /\ timeStringToMinutes(last.res.slots[1]) < timeStringToMinutes(row.time)
          /\ timeStringToMinutes(last.res.slots[Len(last.res.slots)])
                > timeStringToMinutes(row.time)

C16_PersistOnlyAfterValidate ==
    [][/\ (last'.op = "createValidate" /\ last'.res.outcome # "ok")
            => (bookings' = bookings /\ inflight' = inflight)
       /\ Len(bookings') > Len(bookings) =>
            LET row == bookings'[Len(bookings')]
            IN /\ bookings' = Append(bookings, row)
               /\ \/ \E k \in 1..Len(inflight) :
                        row = Row(inflight[k].date, inflight[k].preferred_time,
                                  inflight[k].postcode, inflight[k].services, "pending")
                  \/ validateBooking(bookings, calendar, travel,
                        ValidateRequest(row.date, row.postcode, row.services, row.time))
                        = "ok"]_vars

\* C17: validateBooking, POST /api/availability and POST /api/date-availability
\* only read: whatever they answer, the table holds the same rows with the same
\* fields after the call as before it.
C17_QueriesReadOnly ==
    [][last'.op \in {"validate", "availability", "dateAvailability"}
            => bookings' = bookings]_vars

\* A refusal by validateBooking while every travel query fails, on a table that
\* holds an occupying row and a row that occupies nothing.
C17_Witness ==
    /\ last.op = "validate"
    /\ last.res.outcome = "OUT_OF_AREA_FOR_DAY"
    /\ \A pair \in Places \X Places : travel[pair] = Fail
    /\ \E k \in 1..Len(bookings) : Occupying(bookings[k])
    /\ \E k \in 1..Len(bookings) : ~ Occupying(bookings[k])

\* C18: whatever the request and the state, a run of validateBooking ends in
\* ok or in one of MISSING_FIELDS, OUTSIDE_WORKING_DAYS, OUTSIDE_WORKING_HOURS,
\* OUT_OF_AREA_FOR_DAY, TIME_TAKEN, TRAVEL_TOO_FAR, and POST /api/bookings
\* answers a refused request with one of these six and nothing else.
C18_ClosedTaxonomy ==
    last.op \in {"validate", "createValidate"} =>
        last.res.outcome \in {"ok", "MISSING_FIELDS", "OUTSIDE_WORKING_DAYS",
                              "OUTSIDE_WORKING_HOURS", "OUT_OF_AREA_FOR_DAY",
                              "TIME_TAKEN", "TRAVEL_TOO_FAR"}

\* C19: when the calendar's events query fails, validateBooking and
\* POST /api/availability do not fail on that account: each gives the result
\* it gives for the same table and travel answers with no calendar block.
C19_CalendarFailureAsEmpty ==
    ~ calendar.up =>
        /\ last.op = "validate" =>
                last.res.outcome
                    = validateBooking(bookings, [up |-> TRUE, blocks |-> <<>>],
                                      travel, last.req)
        /\ last.op = "availability" =>
                /\ last.res = availability(bookings, [up |-> TRUE, blocks |-> <<>>],
                                           travel, last.req)
                /\ last.res.code # 500

\* The events query fails while the calendar holds a block over the requested
\* time: the request is accepted, and it is refused once the block is read.
C19_Witness ==
    /\ ~ calendar.up
    /\ last.op = "validate"
    /\ last.res.outcome = "ok"
    /\ validateBooking(bookings, [up |-> TRUE, blocks |-> calendar.blocks],
                       travel, last.req) = "TIME_TAKEN"

\* C20: an outage only takes results away. For the same table and request,
\* the slot list returned while the events query fails, or while some travel
\* queries fail, is within the list returned when they are answered, and
\* validateBooking accepts nothing under the outage that it refuses without it.
C20_OutageConservative ==
    \A cal \in CalendarStates, tr \in TravelAnswers :
        (/\ \/ cal = calendar
            \/ ~ calendar.up /\ cal.up /\ cal.blocks = calendar.blocks
         /\ \A pair \in Places \X Places :
                travel[pair] = tr[pair] \/ travel[pair] = Fail)
        => /\ last.op = "availability" =>
                LET answered == availability(bookings, cal, tr, last.req).slots
                IN {last.res.slots[n] : n \in 1..Len(last.res.slots)}
                        \subseteq {answered[m] : m \in 1..Len(answered)}
           /\ (last.op = "validate" /\ last.res.outcome = "ok")
                => validateBooking(bookings, cal, tr, last.req) = "ok"

\* C20 for failures of the travel queries alone, the calendar answering alike.
C20_TravelOutageConservative ==
    \A tr \in TravelAnswers :
        (\A pair \in Places \X Places : travel[pair] = tr[pair] \/ travel[pair] = Fail)
        => /\ last.op = "availability" =>
                LET answered == availability(bookings, calendar, tr, last.req).slots
                IN {last.res.slots[n] : n \in 1..Len(last.res.slots)}
                        \subseteq {answered[m] : m \in 1..Len(answered)}
           /\ (last.op = "validate" /\ last.res.outcome = "ok")
                => validateBooking(bookings, calendar, tr, last.req) = "ok"

\* C21: POST /api/date-availability answers with exactly one entry for each
\* day from start_date to end_date inclusive, in ascending order, each labelled
\* with its own date; the entries of Saturdays and Sundays have in_area false;
\* when start_date is after end_date there is no entry.
C21_OneEntryPerDay ==
    (last.op = "dateAvailability" /\ last.res.code = 200) =>
        LET req == last.req
            dates == last.res.dates
        IN /\ Len(dates) = IF req.end_date < req.start_date THEN 0
                           ELSE req.end_date - req.start_date + 1
           /\ \A k \in 1..Len(dates) :
                /\ dates[k].date = req.start_date + k - 1
                /\ dates[k].date % 7 \in {6, 0} => ~ dates[k].in_area

\* C21 on a server whose local midnight falls on the same UTC date.
C21_OneEntryPerDayNoShift ==
    (last.op = "dateAvailability" /\ ~ last.req.tzAhead) => C21_OneEntryPerDay

\* C22: every interval that reaches an overlap or travel test has
\* start < end: when validateBooking or POST /api/availability has run those
\* tests, each interval built from the day's rows and calendar blocks has
\* start < end, and so has the requested interval of validateBooking and of
\* every candidate of the slot loop.
C22_StartBeforeEnd ==
    LET intervals ==
            BuildIntervals(SelectForDate(bookings, last.req.date),
                           getBusyIntervalsForDate(calendar, last.req.date))
        built == \A k \in 1..Len(intervals) : JsLt(intervals[k].start, intervals[k].end)
        d == estimateBookingDurationMinutes(last.req.services) + 30
    IN /\ (last.op = "validate"
                /\ last.res.outcome \in {"ok", "TIME_TAKEN", "TRAVEL_TOO_FAR"})
            => /\ built
               /\ JsLt(timeStringToMinutes(last.req.preferred_time),
                       JsAdd(timeStringToMinutes(last.req.preferred_time), d))
       /\ (/\ last.op = "availability" /\ last.res.code = 200
           /\ last.req.date # NoDate /\ last.req.postcode # ""
           /\ isWorkingDay(last.req.date)
           /\ \/ SelectForDate(bookings, last.req.date) = <<>>
              \/ ~ AllFar(travel, last.req.postcode, SelectForDate(bookings, last.req.date)))
            => built /\ d > 0

\* C23: for every list of service items whose quantity is missing or
\* positive, items with an unrecognized, missing or wrong-typed serviceId or
\* size included, estimateBookingDurationMinutes returns a number of minutes
\* >= 0 and does not throw.
C23_EstimatorTotal ==
    (/\ last.op = "estimate"
     /\ last.req # NotAList
     /\ \A k \in 1..Len(last.req) : last.req[k].quantity >= 0)
    => last.res # TypeError /\ last.res >= 0

\* C23 for items whose serviceId and size are strings or missing.
C23_EstimatorTotalOnStrings ==
    (/\ last.op = "estimate"
     /\ last.req # NotAList
     /\ \A k \in 1..Len(last.req) :
            last.req[k].serviceId \notin NotStrings /\ last.req[k].size \notin NotStrings)
    => C23_EstimatorTotal

\* C24: the estimator equals the reference function: 60 for an empty list or
\* a value that is not a list, otherwise the sum over the items of unit * quantity,
\* quantity defaulting to 1, with unit 60 for basic_wash, 60/75/90 (otherwise
\* 60) for exterior_detailed small/medium/large, 75/95/120 (otherwise 75) for
\* full_detailed small/medium/large and 60 for any other serviceId, letter
\* case ignored.
C24_EqualsReference ==
    last.op = "estimate"
    => LET IsSmall(size) == size \in {"small", "Small", "SMALL"}
           IsMedium(size) == size \in {"medium", "Medium", "MEDIUM"}
           IsLarge(size) == size \in {"large", "Large", "LARGE"}
           unit(item) ==
               IF item.serviceId \in {"exterior_detailed", "Exterior_Detailed", "EXTERIOR_DETAILED"}
               THEN IF IsMedium(item.size) THEN 75 ELSE IF IsLarge(item.size) THEN 90 ELSE 60
               ELSE IF item.serviceId \in {"full_detailed", "Full_Detailed", "FULL_DETAILED"}
               THEN IF IsSmall(item.size) THEN 75
                    ELSE IF IsMedium(item.size) THEN 95
                    ELSE IF IsLarge(item.size) THEN 120
                    ELSE 75
               ELSE 60
           quantity(item) == IF item.quantity = 0 THEN 1 ELSE item.quantity
           RECURSIVE total(_)
           total(k) ==
               IF k = 0 THEN 0
               ELSE total(k - 1) + unit(last.req[k]) * quantity(last.req[k])
       IN last.res = IF last.req = NotAList \/ Len(last.req) = 0 THEN 60
                     ELSE total(Len(last.req))

\* C24 for items whose serviceId and size are strings or missing.
C24_EqualsReferenceOnStrings ==
    (/\ last.op = "estimate"
     /\ last.req # NotAList =>
            \A k \in 1..Len(last.req) :
                last.req[k].serviceId \notin NotStrings /\ last.req[k].size \notin NotStrings)
    => C24_EqualsReference

C24_Witness ==
    /\ last.op = "estimate"
    /\ last.req = <<Item("Full_Detailed", "LARGE", 1), Item("basic_wash", "", 2)>>
    /\ last.res = 240

\* C25: POST /api/availability for a date that is not Monday to Friday
\* answers 200 with an empty slot list and calls neither dbAll on the bookings
\* table, nor getBusyIntervalsForDate, nor getTravelTimeMinutes.
C25_NonWorkingDayNoReads ==
    (/\ last.op = "availability"
     /\ last.req.date # NoDate
     /\ last.req.postcode # ""
     /\ last.req.date % 7 \in {6, 0})
    => /\ last.res = [code |-> 200, slots |-> <<>>]
       /\ last.reads = {}

\* A Saturday asked for while the table holds occupying rows and the calendar
\* answers: the response is empty and nothing was read.
C25_Witness ==
    /\ last.op = "availability"
    /\ last.req.date = Saturday
    /\ last.req.postcode = "AB1"
    /\ calendar.up
    /\ \E k \in 1..Len(bookings) : Occupying(bookings[k])
    /\ last.res = [code |-> 200, slots |-> <<>>]
    /\ last.reads = {}

\* C26: nothing stands between a validated create request and its INSERT:
\* every request that has passed validateBooking can be inserted whatever the
\* table holds by then, so two requests for overlapping intervals that were
\* both validated before either was inserted are both stored.
C26_InsertNeverRefused ==
    \A k \in 1..Len(inflight) : ENABLED CreateInsert(k)

\* Two pending rows of one date with the same well-formed start, stored by two
\* creations that were each validated before the other's INSERT.
C26_Witness ==
    /\ raced /\ ~ edited
    /\ handled = 0
    /\ Len(bookings) = 2
    /\ bookings[1].date = bookings[2].date
    /\ bookings[1].time = T(9, 0) /\ bookings[2].time = T(9, 0)
    /\ \A k \in 1..2 : bookings[k].status = "pending" /\ bookings[k].services = NoServices
    /\ last.op = "createInsert"

\* C27: a PATCH /api/bookings/:id or PATCH /api/bookings/:id/status that
\* starts from a table whose pending and confirmed rows of each date do not
\* overlap leaves a table whose pending and confirmed rows of each date do not
\* overlap.
C27_PatchKeepsNoOverlap ==
    [][LET NoOverlap(table) ==
               \A i, j \in 1..Len(table) :
                   LET a == table[i]
                       b == table[j]
                       aStart == timeStringToMinutes(a.time)
                       bStart == timeStringToMinutes(b.time)
                       aEnd == JsAdd(aStart, estimateBookingDurationMinutes(a.services) + 30)
                       bEnd == JsAdd(bStart, estimateBookingDurationMinutes(b.services) + 30)
                   IN (i < j /\ a.date = b.date /\ Occupying(a) /\ Occupying(b))
                      => ~ JsLt(JsMax(aStart, bStart), JsMin(aEnd, bEnd))
       IN (last'.op \in {"patchBooking", "patchStatus"} /\ NoOverlap(bookings))
          => NoOverlap(bookings')]_vars

C28_WitnessAfterCancel ==
    /\ ~ raced /\ ~ edited /\ handled = 1
    /\ last.op = "patchStatus"
    /\ Len(bookings) = 3
    /\ \E i, j, k \in 1..3 :
          /\ bookings[i].time = T(9, 0) /\ bookings[j].time = T(10, 30)
          /\ bookings[k].time = T(12, 0)
          /\ Occupying(bookings[i]) /\ ~ Occupying(bookings[j]) /\ Occupying(bookings[k])
          /\ getTravelTimeMinutes(travel, bookings[i].postcode, bookings[k].postcode)
                > TRAVEL_LIMIT_MIN

C30_MonotoneInBookings ==
    (last.op = "availability" /\ last.res.code = 200) =>
        LET before == {last.res.slots[n] : n \in 1..Len(last.res.slots)}
        IN \A k \in 1..Len(bookings) :
              Occupying(bookings[k]) =>
                  LET after == availability([bookings EXCEPT ![k].status = "cancelled"],
                                            calendar, travel, last.req).slots
                  IN before \subseteq {after[n] : n \in 1..Len(after)}

====
